---- MODULE Spec2Model ----
(***************************************************************************)
(* Consolidador de ventas: leer_archivos_excel (shared_utils/              *)
(* excel_helper.py) and main() with its analysis functions                 *)
(* (demo1-consolidador-ventas/consolidador.py).                            *)
(*                                                                         *)
(* Money is kept in thousandths of the currency unit, so that round(2) is  *)
(* a real operation (Round2) and not the identity.  A table (DataFrame) is *)
(* a sequence of rows; a row is a record of its cells plus its index label *)
(* "indice".  Blank cells are NaN (text columns) or NaT (Fecha).           *)
(* A workbook is the sequence of its sheets; cell texts, formulas and      *)
(* number formats are the strings the code writes.                         *)
(***************************************************************************)
EXTENDS Integers, Sequences, FiniteSets, TLC

VARIABLES
    carpeta_existe,   \* INPUT_DIR exists on disk
    archivos,         \* result of carpeta.glob(patron), in listing order
    fallo_entorno,    \* step at which a library / I-O call raises, or "ninguno"
    top_n,            \* argument top_n of analizar_top_productos
    pc,               \* position of main()
    idx,              \* position of the for-loop of leer_archivos_excel
    leidos,           \* names of the files handed to pd.read_excel so far
    dataframes,       \* local list `dataframes` of leer_archivos_excel
    df_consolidado,   \* the consolidated table (None before it is returned)
    df_columnas,      \* df_consolidado.columns: its column labels in order
    error,            \* the exception main() re-raises (None while running)
    stats,            \* calcular_estadisticas_generales result
    ventas_sucursal,  \* analizar_ventas_por_sucursal result
    top_productos,    \* analizar_top_productos result (top_cantidad, top_monto)
    vendedores_stats, \* analizar_vendedores result
    categorias_stats, \* analizar_categorias result
    tendencia,        \* analizar_tendencia_temporal result
    disco,            \* what this run has written under OUTPUT_DIR
    wb,               \* the workbook main() holds in memory during paso 6
    loggers,          \* logging's registry: level and handlers of each logger name
    llamada,          \* arguments of the setup_logger call that returned last
    consola           \* what the last logger.log call wrote to sys.stdout

vars == <<carpeta_existe, archivos, fallo_entorno, top_n, pc, idx, leidos, dataframes,
          df_consolidado, df_columnas, error, stats, ventas_sucursal, top_productos,
          vendedores_stats, categorias_stats, tendencia, disco, wb,
          loggers, llamada, consola>>

-----------------------------------------------------------------------------
(* Bounds of the model *)

MaxArchivos == 3      \* files matched by the glob
MaxRegistros == 3     \* rows of a consolidated table drawn directly
MaxFilasDashboard == 2  \* rows of the table behind a dashboard drawn directly

(* Program constants *)

TOP_N == 10

None == "None"
NaN == "NaN"          \* blank text cell, as pd.read_excel returns it
NaT == [tipo |-> "NaT", dia |-> 0]

COLUMNAS_REQUERIDAS ==
    <<"Fecha", "Producto", "Categoria", "Cantidad",
      "Precio_Unitario", "Vendedor", "Sucursal">>

Rango(s) == {s[k] : k \in DOMAIN s}

-----------------------------------------------------------------------------
(* Input data: cells, rows and files the run can meet *)

Fch(d) == [tipo |-> "datetime", dia |-> d]
Txt(d) == [tipo |-> "texto", dia |-> d]     \* the date of day d stored as text

Fila(f, p, c, q, pu, v, s) ==
    [Fecha |-> f, Producto |-> p, Categoria |-> c, Cantidad |-> q,
     Precio_Unitario |-> pu, Vendedor |-> v, Sucursal |-> s]

\* Rows of sale records: prices in thousandths (1007 = 1.007).
FilaPool ==
    << Fila(Fch(1), "Laptop",  "Electronica", 2, 1007, "Ana",  "Norte"),
       Fila(Fch(2), "Mouse",   "Accesorios",  1, 2500, "Luis", "Sur"),
       Fila(Fch(1), "Mouse",   "Accesorios",  3, 1002, "Ana",  "Sur"),
       Fila(Fch(2), "Teclado", "Accesorios",  1, 2500, "Luis", "Centro"),
       Fila(Fch(3), "Laptop",  "Electronica", 0, 1007, "Luis", "Norte"),
       Fila(Fch(3), "Teclado", "Accesorios",  2, 1503, "Ana",  NaN),
       Fila(NaT,    "Mouse",   NaN,           1, 1002, NaN,    "Centro"),
       Fila(Txt(2), "Laptop",  "Electronica", 1, 1007, "Ana",  "Sur") >>

\* Lexicographic order of the text values above (groupby sorts its keys).
OrdenClaves ==
    <<"Accesorios", "Ana", "Centro", "Electronica", "Laptop", "Luis",
      "Mouse", "Norte", "Sur", "Teclado">>

PosClave(s) == CHOOSE k \in DOMAIN OrdenClaves : OrdenClaves[k] = s

Archivo(n, l, cols, fs) == [name |-> n, legible |-> l, columnas |-> cols, filas |-> fs]

Todas == Rango(COLUMNAS_REQUERIDAS)

\* Files an input directory can hold (names are unique in a directory).
ArchivoPool ==
    { Archivo("ventas_norte.xlsx",  TRUE,  Todas, <<FilaPool[1], FilaPool[5]>>),
      Archivo("ventas_sur.xlsx",    TRUE,  Todas \cup {"Notas"},
                                           <<FilaPool[2], FilaPool[3], FilaPool[2]>>),
      Archivo("ventas_centro.xlsx", TRUE,  Todas, <<FilaPool[4], FilaPool[1]>>),
      Archivo("ventas_blancos.xlsx", TRUE, Todas, <<FilaPool[6], FilaPool[7]>>),
      Archivo("ventas_ceros.xlsx",  TRUE,  Todas, <<FilaPool[5]>>),
      Archivo("ventas_texto.xlsx",  TRUE,  Todas, <<FilaPool[8]>>),
      Archivo("vacio.xlsx",         TRUE,  Todas, <<>>),
      Archivo("sin_sucursal.xlsx",  TRUE,  Todas \ {"Sucursal"},
              <<Fila(Fch(2), "Mouse", "Accesorios", 1, 2500, "Luis", NaN)>>),
      Archivo("sin_dos.xlsx",       TRUE,  Todas \ {"Fecha", "Vendedor"},
              <<Fila(NaT, "Mouse", "Accesorios", 3, 1002, NaN, "Sur")>>),
      Archivo("corrupto.xlsx",      FALSE, {}, <<>>) }

\* The header row of a file: its column labels from left to right.  One file
\* has an extra column among the required ones, one has them in another
\* order; the others have the layout of the sample data.
Encabezado(a) ==
    IF a.name = "ventas_sur.xlsx"
    THEN <<"Fecha", "Producto", "Categoria", "Notas", "Cantidad", "Precio_Unitario",
           "Vendedor", "Sucursal">>
    ELSE IF a.name = "ventas_centro.xlsx"
    THEN <<"Sucursal", "Vendedor", "Fecha", "Producto", "Categoria", "Cantidad",
           "Precio_Unitario">>
    ELSE SelectSeq(COLUMNAS_REQUERIDAS, LAMBDA c : c \in a.columnas)

\* Sequences without repetition over S, of length at most n.
SecuenciasDistintas(S, n) ==
    {s \in UNION {[1..k -> S] : k \in 0..n} :
        \A a, b \in DOMAIN s : a # b => s[a] # s[b]}

-----------------------------------------------------------------------------
(* leer_archivos_excel *)

SinError == [tipo |-> "None", archivo |-> "", columnas |-> {}, paso |-> ""]

Excepcion(t, a, c, p) == [tipo |-> t, archivo |-> a, columnas |-> c, paso |-> p]

\* Variant: the glob result is tested before the directory.
ErrorDeEntrada_glob_primero(existe, archs) ==
    IF archs = <<>> THEN "ValueError_sin_archivos"
    ELSE IF ~existe THEN "FileNotFoundError"
    ELSE "ok"

\* Lines 107-115: the directory check, then the glob and its emptiness check.
ErrorDeEntrada(existe, archs) ==
    IF ~existe THEN "FileNotFoundError"
    ELSE IF archs = <<>> THEN "ValueError_sin_archivos"
    ELSE "ok"

\* pd.read_excel: the rows of the sheet under a fresh RangeIndex 0..n-1.
ConCampo(r, campo, v) ==
    [c \in DOMAIN r \cup {campo} |-> IF c = campo THEN v ELSE r[c]]

ConIndice(r, i) == ConCampo(r, "indice", i)

read_excel(a) == [k \in 1..Len(a.filas) |-> ConIndice(a.filas[k], k - 1)]

\* Variant: the operands of the set difference swapped.
columnas_faltantes_invertida(requeridas, columnas) == columnas \ Rango(requeridas)

\* Variant: only the first missing column, in the order of the list, is kept.
columnas_faltantes_primera(requeridas, columnas) ==
    LET faltan == {k \in DOMAIN requeridas : requeridas[k] \notin columnas}
    IN  IF faltan = {} THEN {}
        ELSE {requeridas[CHOOSE k \in faltan : \A j \in faltan : k <= j]}

\* Line 130: set(columnas_requeridas) - set(df.columns)
columnas_faltantes(requeridas, columnas) == Rango(requeridas) \ columnas

RECURSIVE Aplanar(_)
Aplanar(dfs) ==
    IF dfs = <<>> THEN <<>> ELSE Head(dfs) \o Aplanar(Tail(dfs))

\* Variant: pd.concat(dataframes), every frame keeping its own index.
concat_sin_reindexar(dfs) == Aplanar(dfs)

\* Variant: the concatenation followed by drop_duplicates (cells compared,
\* the index ignored).
concat_sin_duplicados(dfs) ==
    LET todo   == Aplanar(dfs)
        unicas == SelectSeq([k \in DOMAIN todo |-> [pos |-> k, fila |-> todo[k]]],
                            LAMBDA e : \A j \in 1..(e.pos - 1) :
                                ConIndice(todo[j], 0) # ConIndice(e.fila, 0))
    IN  [k \in DOMAIN unicas |-> ConIndice(unicas[k].fila, k - 1)]

\* Line 144: pd.concat(dataframes, ignore_index=True)
concat(dfs) ==
    LET todo == Aplanar(dfs)
    IN  [k \in 1..Len(todo) |-> ConIndice(todo[k], k - 1)]

-----------------------------------------------------------------------------
(* pandas helpers used by the analysis functions *)

\* round(2) of a non-negative amount in thousandths: nearest hundredth,
\* an exact tie to the even hundredth (numpy's rint).
Round2(x) ==
    LET q == x \div 10
        r == x % 10
    IN  IF r < 5 THEN q * 10
        ELSE IF r > 5 THEN (q + 1) * 10
        ELSE IF q % 2 = 0 THEN q * 10 ELSE (q + 1) * 10

Indefinido == 0 - 1     \* NaN / inf as the value of a rounded quotient

\* Variant: the quotient cut to 2 decimals instead of rounded.
Round2Cociente_truncado(n, d) ==
    IF d = 0 THEN Indefinido ELSE (n \div (10 * d)) * 10

\* (n / d).round(2) for amounts in thousandths.
Round2Cociente(n, d) ==
    IF d = 0 THEN Indefinido
    ELSE LET q == n \div (10 * d)
             r == n % (10 * d)
         IN  IF 2 * r < 10 * d THEN q * 10
             ELSE IF 2 * r > 10 * d THEN (q + 1) * 10
             ELSE IF q % 2 = 0 THEN q * 10 ELSE (q + 1) * 10

\* A quotient kept exact; den = 0 is the NaN of 0/0.
Fraccion(n, d) == [num |-> n, den |-> d]

RECURSIVE Suma(_, _)
Suma(df, campo) ==
    IF df = <<>> THEN 0 ELSE Head(df)[campo] + Suma(Tail(df), campo)

Filtrar(df, col, clave) == SelectSeq(df, LAMBDA r : r[col] = clave)

\* Series.count(): the non-null cells of Fecha.
ContarFecha(df) == Len(SelectSeq(df, LAMBDA r : r.Fecha # NaT))

\* groupby(col): the distinct non-null keys (dropna=True), sorted (sort=True).
ClavesTexto(df, col) == {df[k][col] : k \in DOMAIN df} \ {NaN}

RECURSIVE OrdenarClaves(_)
OrdenarClaves(S) ==
    IF S = {} THEN <<>>
    ELSE LET m == CHOOSE x \in S : \A y \in S : PosClave(x) <= PosClave(y)
         IN  <<m>> \o OrdenarClaves(S \ {m})

groupby(df, col) == OrdenarClaves(ClavesTexto(df, col))

\* sort_values(campo, ascending=False): insertion of each row after the rows
\* whose value is greater or equal.
RECURSIVE InsertarDesc(_, _, _)
InsertarDesc(orden, x, campo) ==
    IF orden = <<>> THEN <<x>>
    ELSE IF Head(orden)[campo] >= x[campo]
         THEN <<Head(orden)>> \o InsertarDesc(Tail(orden), x, campo)
         ELSE <<x>> \o orden

RECURSIVE OrdenarDesde(_, _, _)
OrdenarDesde(orden, resto, campo) ==
    IF resto = <<>> THEN orden
    ELSE OrdenarDesde(InsertarDesc(orden, Head(resto), campo), Tail(resto), campo)

Permutaciones(n) ==
    {p \in [1..n -> 1..n] : \A a, b \in 1..n : a # b => p[a] # p[b]}

Permutar(tabla, p) == [k \in DOMAIN tabla |-> tabla[p[k]]]

\* Variant: sort_values(campo) with the default ascending=True.
sort_values_ascendente(tabla, campo) ==
    {LET d == OrdenarDesde(<<>>, Permutar(tabla, p), campo)
     IN  [k \in DOMAIN d |-> d[Len(d) + 1 - k]] : p \in Permutaciones(Len(tabla))}

\* sort_values(campo, ascending=False) with the default kind='quicksort',
\* which is not a stable sort: rows of equal value may come out in any
\* order.  The set of the orders it can return.
sort_values(tabla, campo) ==
    {OrdenarDesde(<<>>, Permutar(tabla, p), campo) : p \in Permutaciones(Len(tabla))}

Min(a, b) == IF a <= b THEN a ELSE b

\* Variant: the first n rows, unsorted (head(n)).
nlargest_primeros(tabla, n, campo) == SubSeq(tabla, 1, Min(n, Len(tabla)))

\* Series.nlargest(n), keep='first': the n greatest in descending order, rows
\* of equal value in their order in the series (it sorts with mergesort).
nlargest(tabla, n, campo) ==
    SubSeq(OrdenarDesde(<<>>, tabla, campo), 1, Min(n, Len(tabla)))

-----------------------------------------------------------------------------
(* Analysis functions of consolidador.py *)

\* df[col] = ...: a new label goes to the end of df.columns.
ConColumna(cols, col) == IF col \in Rango(cols) THEN cols ELSE Append(cols, col)

RECURSIVE UnirColumnas(_, _)
UnirColumnas(cols, nuevas) ==
    IF nuevas = <<>> THEN cols
    ELSE UnirColumnas(ConColumna(cols, Head(nuevas)), Tail(nuevas))

\* The columns of pd.concat(dataframes): the union of the frames' columns in
\* order of first appearance (join='outer', sort=False).
RECURSIVE concat_columnas(_)
concat_columnas(encabezados) ==
    IF encabezados = <<>> THEN <<>>
    ELSE UnirColumnas(Head(encabezados), concat_columnas(Tail(encabezados)))

\* Variant: the product is stored without round(2).
calcular_total_venta_sin_redondeo(df) ==
    [k \in DOMAIN df |->
        ConCampo(df[k], "Total_Venta", df[k].Cantidad * df[k].Precio_Unitario)]

\* Lines 345-347: Total_Venta = (Cantidad * Precio_Unitario).round(2)
calcular_total_venta(df) ==
    [k \in DOMAIN df |->
        ConCampo(df[k], "Total_Venta",
                 Round2(df[k].Cantidad * df[k].Precio_Unitario))]

FechasNoNulas(df) == {df[k].Fecha : k \in DOMAIN df} \ {NaT}

\* min / max of an object column raise TypeError when text and datetime
\* cells have to be compared.
FechasMezcladas(df) == Cardinality({f.tipo : f \in FechasNoNulas(df)}) > 1

FechaMin(df) ==
    IF FechasNoNulas(df) = {} THEN NaT
    ELSE CHOOSE f \in FechasNoNulas(df) : \A g \in FechasNoNulas(df) : f.dia <= g.dia

FechaMax(df) ==
    IF FechasNoNulas(df) = {} THEN NaT
    ELSE CHOOSE f \in FechasNoNulas(df) : \A g \in FechasNoNulas(df) : f.dia >= g.dia

calcular_estadisticas_generales(df) ==
    [total_ventas        |-> Suma(df, "Total_Venta"),
     total_transacciones |-> Len(df),
     ticket_promedio     |-> Fraccion(Suma(df, "Total_Venta"), Len(df)),
     fecha_inicio        |-> FechaMin(df),
     fecha_fin           |-> FechaMax(df),
     num_sucursales      |-> Cardinality(ClavesTexto(df, "Sucursal")),
     num_vendedores      |-> Cardinality(ClavesTexto(df, "Vendedor")),
     num_productos       |-> Cardinality(ClavesTexto(df, "Producto"))]

\* Adds Participacion = Total_Ventas / Total_Ventas.sum() to every row.
ConParticipacion(resumen) ==
    LET total == Suma(resumen, "Total_Ventas")
    IN  [k \in DOMAIN resumen |->
            ConCampo(resumen[k], "Participacion",
                     Fraccion(resumen[k].Total_Ventas, total))]

analizar_ventas_por_sucursal(df) ==
    LET claves  == groupby(df, "Sucursal")
        resumen == [k \in DOMAIN claves |->
                      LET g == Filtrar(df, "Sucursal", claves[k])
                      IN  [Sucursal      |-> claves[k],
                           Total_Ventas  |-> Round2(Suma(g, "Total_Venta")),
                           Transacciones |-> ContarFecha(g)]]
    IN  sort_values(ConParticipacion(resumen), "Total_Ventas")

analizar_top_productos(df, n) ==
    LET claves   == groupby(df, "Producto")
        cantidad == [k \in DOMAIN claves |->
                       [Producto |-> claves[k],
                        Cantidad |-> Suma(Filtrar(df, "Producto", claves[k]), "Cantidad")]]
        monto    == [k \in DOMAIN claves |->
                       [Producto    |-> claves[k],
                        Total_Venta |-> Suma(Filtrar(df, "Producto", claves[k]),
                                             "Total_Venta")]]
        mayores  == nlargest(monto, n, "Total_Venta")
    IN  [top_cantidad |-> nlargest(cantidad, n, "Cantidad"),
         top_monto    |-> [k \in DOMAIN mayores |->
                             [mayores[k] EXCEPT !.Total_Venta = Round2(@)]]]

analizar_vendedores(df) ==
    LET claves     == groupby(df, "Vendedor")
        vendedores == [k \in DOMAIN claves |->
                         LET g == Filtrar(df, "Vendedor", claves[k])
                         IN  [Vendedor      |-> claves[k],
                              Total_Ventas  |-> Round2(Suma(g, "Total_Venta")),
                              Transacciones |-> ContarFecha(g)]]
        conTicket  == [k \in DOMAIN vendedores |->
                         ConCampo(vendedores[k], "Ticket_Promedio",
                                  Round2Cociente(vendedores[k].Total_Ventas,
                                                 vendedores[k].Transacciones))]
    IN  sort_values(conTicket, "Total_Ventas")

analizar_categorias(df) ==
    LET claves     == groupby(df, "Categoria")
        categorias == [k \in DOMAIN claves |->
                         LET g == Filtrar(df, "Categoria", claves[k])
                         IN  [Categoria         |-> claves[k],
                              Total_Ventas      |-> Round2(Suma(g, "Total_Venta")),
                              Unidades_Vendidas |-> Suma(g, "Cantidad")]]
    IN  sort_values(ConParticipacion(categorias), "Total_Ventas")

\* Line 209: df['Fecha'] = pd.to_datetime(df['Fecha']), written into the
\* caller's table: text dates are parsed, datetimes and NaT kept.
to_datetime(f) == IF f.tipo = "texto" THEN Fch(f.dia) ELSE f

ConFechaConvertida(df) ==
    [k \in DOMAIN df |-> [df[k] EXCEPT !.Fecha = to_datetime(@)]]

RECURSIVE OrdenarDias(_)
OrdenarDias(S) ==
    IF S = {} THEN <<>>
    ELSE LET m == CHOOSE x \in S : \A y \in S : x <= y
         IN  <<m>> \o OrdenarDias(S \ {m})

\* Lines 211-213, on the table whose Fecha is already converted.
analizar_tendencia_temporal(df) ==
    LET dias == OrdenarDias({f.dia : f \in FechasNoNulas(df)})
    IN  [k \in DOMAIN dias |->
            [Fecha       |-> Fch(dias[k]),
             Total_Venta |-> Round2(Suma(Filtrar(df, "Fecha", Fch(dias[k])),
                                         "Total_Venta"))]]

-----------------------------------------------------------------------------
(* The workbook: sheets as pandas writes them and openpyxl formats them *)

Max(a, b) == IF a >= b THEN a ELSE b

\* A sheet: the data rows under the header row, the cells written one by one
\* afterwards, the images, number formats and tables attached to it, and
\* the kinds of operation done on it so far, in order ("datos": to_excel,
\* "valor": a cell value written, "formato": styling or a number format
\* applied, "guardada": written to the file).
Hoja(nombre, filas, max_row) ==
    [nombre |-> nombre, filas |-> filas, max_row |-> max_row,
     celdas |-> {}, imagenes |-> {}, formatos |-> {}, tablas |-> {},
     estado |-> "datos", historia |-> <<"datos">>, encabezado |-> <<>>]

\* One more operation on the sheet; a run of operations of one kind is kept
\* as one entry.
Registrar(hoja, evento) ==
    IF hoja.historia[Len(hoja.historia)] = evento THEN hoja
    ELSE [hoja EXCEPT !.historia = Append(@, evento)]

\* DataFrame.to_excel: a header row and one row per record; the DataFrame
\* without columns of the Dashboard sheet writes nothing (max_row is then 1).
to_excel(filas, sheet_name) == Hoja(sheet_name, filas, 1 + Len(filas))

QuitarIndice(r) == [c \in DOMAIN r \ {"indice"} |-> r[c]]

\* Lines 436-442: the two rankings side by side.
top_productos_df(top) ==
    [k \in DOMAIN top.top_cantidad |->
        [Producto_Cantidad |-> top.top_cantidad[k].Producto,
         Cantidad          |-> top.top_cantidad[k].Cantidad,
         Espaciador        |-> "",
         Producto_Monto    |-> top.top_monto[k].Producto,
         Total_Venta       |-> top.top_monto[k].Total_Venta]]

\* Row 1 of a sheet: the labels of the DataFrame's columns, after the name
\* of its index when the index is written.
ConEncabezado(hoja, cols) == [hoja EXCEPT !.encabezado = cols]

ENCABEZADO_TOP ==
    <<"Producto_Cantidad", "Cantidad", "Espaciador", "Producto_Monto", "Total_Venta">>

ENCABEZADO_VENDEDORES == <<"Vendedor", "Total_Ventas", "Transacciones", "Ticket_Promedio">>

ENCABEZADO_SUCURSALES == <<"Sucursal", "Total_Ventas", "Transacciones", "Participacion">>

\* Variant: the branch summary is written before the salesperson analysis.
escribir_hojas_sucursales_antes(df, cols, top, vendedores, sucursales) ==
    << to_excel(<<>>, "Dashboard"),
       ConEncabezado(to_excel([k \in DOMAIN df |-> QuitarIndice(df[k])],
                              "Datos_Consolidados"), cols),
       ConEncabezado(to_excel(top_productos_df(top), "Top_Productos"), ENCABEZADO_TOP),
       ConEncabezado(to_excel(sucursales, "Resumen_Sucursales"), ENCABEZADO_SUCURSALES),
       ConEncabezado(to_excel(vendedores, "Analisis_Vendedores"), ENCABEZADO_VENDEDORES) >>

\* Lines 427-449: the sheets in the order of the to_excel calls.
escribir_hojas(df, cols, top, vendedores, sucursales) ==
    << to_excel(<<>>, "Dashboard"),
       ConEncabezado(to_excel([k \in DOMAIN df |-> QuitarIndice(df[k])],
                              "Datos_Consolidados"), cols),
       ConEncabezado(to_excel(top_productos_df(top), "Top_Productos"), ENCABEZADO_TOP),
       ConEncabezado(to_excel(vendedores, "Analisis_Vendedores"), ENCABEZADO_VENDEDORES),
       ConEncabezado(to_excel(sucursales, "Resumen_Sucursales"), ENCABEZADO_SUCURSALES) >>

\* worksheet[f'{columna}{fila}'] = valor
Escribir(hoja, columna, fila, valor) ==
    LET celda == columna \o ToString(fila)
    IN  Registrar([hoja EXCEPT !.celdas  = {c \in @ : c.celda # celda}
                                           \cup {[celda |-> celda, valor |-> valor]},
                               !.max_row = Max(@, fila)],
                  "valor")

FormatearColumna(hoja, columna, formato, fila_inicio) ==
    IF fila_inicio > hoja.max_row THEN hoja
    ELSE Registrar(
        [hoja EXCEPT !.formatos =
            {f \in @ : f.celda \notin {columna \o ToString(r) :
                                           r \in fila_inicio..hoja.max_row}}
            \cup {[celda |-> columna \o ToString(r), formato |-> formato] :
                     r \in fila_inicio..hoja.max_row}],
        "formato")

formatear_moneda_columna(hoja, columna, fila_inicio) ==
    FormatearColumna(hoja, columna, "$#,##0.00", fila_inicio)

formatear_porcentaje_columna(hoja, columna, fila_inicio) ==
    FormatearColumna(hoja, columna, "0.00%", fila_inicio)

formatear_numero_columna(hoja, columna, fila_inicio) ==
    FormatearColumna(hoja, columna, "#,##0", fila_inicio)

crear_tabla_excel(hoja, rango, nombre_tabla) ==
    Registrar([hoja EXCEPT !.tablas = @ \cup {[nombre |-> nombre_tabla, ref |-> rango]}],
              "formato")

\* Fonts, fills, borders and widths: the sheet becomes a styled one.
aplicar_formato_profesional(hoja) ==
    Registrar([hoja EXCEPT !.estado = "formateada"], "formato")

\* f"{x:,.2f}" of an amount in thousandths: digits grouped by thousands, two
\* decimals.
Dos(n) == IF n < 10 THEN "0" \o ToString(n) ELSE ToString(n)

Tres(n) == IF n < 100 THEN "0" \o Dos(n) ELSE ToString(n)

RECURSIVE Miles(_)
Miles(n) == IF n < 1000 THEN ToString(n) ELSE Miles(n \div 1000) \o "," \o Tres(n % 1000)

FormatoDecimal(x) ==
    LET centavos == Round2(x) \div 10
    IN  Miles(centavos \div 100) \o "." \o Dos(centavos % 100)

FormatoCociente(q) ==
    IF q.den = 0 THEN "nan" ELSE FormatoDecimal(Round2Cociente(q.num, q.den))

\* str() of a date cell: a Timestamp, the text itself, or NaT.
FechaTexto(f) ==
    IF f = NaT THEN "NaT"
    ELSE IF f.tipo = "texto" THEN "2024-01-" \o Dos(f.dia)
    ELSE "2024-01-" \o Dos(f.dia) \o " 00:00:00"

fila_kpi == 5
fila_grafico1 == 13
fila_grafico2 == 13
fila_grafico3 == 38

\* Lines 251-258: the labelled KPI values.
kpis(s) ==
    << <<"Total Ventas:",        "$" \o FormatoDecimal(s.total_ventas)>>,
       <<"Total Transacciones:", Miles(s.total_transacciones)>>,
       <<"Ticket Promedio:",     "$" \o FormatoCociente(s.ticket_promedio)>>,
       <<"Sucursales:",          ToString(s.num_sucursales)>>,
       <<"Vendedores:",          ToString(s.num_vendedores)>>,
       <<"Productos Unicos:",    ToString(s.num_productos)>> >>

\* A cell of the dashboard: its value, then its font (lines 237-238).
EscribirConFuente(hoja, columna, fila, valor) ==
    Registrar(Escribir(hoja, columna, fila, valor), "formato")

RECURSIVE EscribirKpis(_, _, _)
EscribirKpis(hoja, lista, i) ==
    IF i > Len(lista) THEN hoja
    ELSE EscribirKpis(EscribirConFuente(EscribirConFuente(hoja, "B", fila_kpi + i - 1, lista[i][1]),
                               "C", fila_kpi + i - 1, lista[i][2]),
                      lista, i + 1)

\* excel_helper.py lines 430-443; escala in hundredths.  r is the sheet with
\* the error raised so far, if any.
insertar_imagen_en_excel(r, imagen, celda, escala, existentes) ==
    IF imagen \notin existentes
    THEN [r EXCEPT !.error = "FileNotFoundError"]
    ELSE [r EXCEPT !.hoja.imagenes =
             @ \cup {[ancla |-> celda, archivo |-> imagen, escala |-> escala]}]

\* Variant: the image is embedded without asking whether its file exists.
GraficoDashboard_sin_verificar(r, columna, fila, titulo, imagen, escala, existentes) ==
    IF r.error # "" THEN r
    ELSE insertar_imagen_en_excel([r EXCEPT !.hoja = EscribirConFuente(@, columna, fila, titulo)],
                                  imagen, columna \o ToString(fila + 1), escala,
                                  existentes)

\* Lines 282-307, once per chart: the chart's title cell, then the image one
\* row below if its file exists.
GraficoDashboard(r, columna, fila, titulo, imagen, escala, existentes) ==
    IF r.error # "" THEN r
    ELSE LET t == [r EXCEPT !.hoja = EscribirConFuente(@, columna, fila, titulo)]
         IN  IF imagen \in existentes
             THEN insertar_imagen_en_excel(t, imagen, columna \o ToString(fila + 1),
                                           escala, existentes)
             ELSE t

\* Lines 220-309: the sheet after the call and the error it raised ("" if none).
\* Accents and pictographs of the texts are left out.
crear_hoja_dashboard(worksheet, s, existentes) ==
    LET titulo  == EscribirConFuente(Registrar(worksheet, "formato"), "B", 2, "REPORTE CONSOLIDADO DE VENTAS")
        periodo == EscribirConFuente(titulo, "B", 3,
                            "Periodo: " \o FechaTexto(s.fecha_inicio) \o " al "
                                        \o FechaTexto(s.fecha_fin))
        conKpis == [hoja |-> EscribirKpis(periodo, kpis(s), 1), error |-> ""]
        g1 == GraficoDashboard(conKpis, "B", fila_grafico1, "Ventas por Sucursal",
                               "ventas_sucursal.png", 55, existentes)
        g2 == GraficoDashboard(g1, "I", fila_grafico2, "Distribucion por Categoria",
                               "categorias.png", 55, existentes)
        g3 == GraficoDashboard(g2, "B", fila_grafico3, "Tendencia de Ventas Diarias",
                               "tendencia.png", 60, existentes)
    IN  [g3 EXCEPT !.hoja.estado = IF g3.error = "" THEN "formateada" ELSE @]

\* Lines 470-480
formatear_datos(ws) ==
    LET f == formatear_numero_columna(
                 formatear_moneda_columna(
                     formatear_moneda_columna(aplicar_formato_profesional(ws), "E", 2),
                     "H", 2),
                 "D", 2)
    IN  crear_tabla_excel(f, "A1:H" \o ToString(f.max_row), "TablaDatosConsolidados")

\* Lines 485-500
formatear_top(ws) ==
    LET t == Escribir(Escribir(ws, "A", 1, "MAS VENDIDOS (Por Cantidad)"),
                      "D", 1, "MAS RENTABLES (Por Monto)")
    IN  formatear_moneda_columna(
            formatear_numero_columna(aplicar_formato_profesional(t), "B", 2), "E", 2)

\* Lines 505-513
formatear_vendedores(ws) ==
    LET f == formatear_moneda_columna(
                 formatear_numero_columna(
                     formatear_moneda_columna(aplicar_formato_profesional(ws), "B", 2),
                     "C", 2),
                 "D", 2)
    IN  crear_tabla_excel(f, "A1:D" \o ToString(f.max_row), "TablaVendedores")

FormulaSuma(columna, hasta) ==
    "=SUM(" \o columna \o "2:" \o columna \o ToString(hasta) \o ")"

\* Variant: the range of the sums runs down to the TOTAL row itself.
agregar_fila_total_hasta_total(ws) ==
    LET ultima_fila == ws.max_row + 1
        t == Escribir(Escribir(Escribir(Escribir(ws,
                 "A", ultima_fila, "TOTAL"),
                 "B", ultima_fila, FormulaSuma("B", ultima_fila)),
                 "C", ultima_fila, FormulaSuma("C", ultima_fila)),
                 "D", ultima_fila, FormulaSuma("D", ultima_fila))
    IN  formatear_porcentaje_columna(
            formatear_numero_columna(
                formatear_moneda_columna(t, "B", ultima_fila), "C", ultima_fila),
            "D", ultima_fila)

\* Lines 526-542: the TOTAL row under the last row of the sheet.
agregar_fila_total(ws) ==
    LET ultima_fila == ws.max_row + 1
        t == Escribir(Escribir(Escribir(Escribir(ws,
                 "A", ultima_fila, "TOTAL"),
                 "B", ultima_fila, FormulaSuma("B", ultima_fila - 1)),
                 "C", ultima_fila, FormulaSuma("C", ultima_fila - 1)),
                 "D", ultima_fila, FormulaSuma("D", ultima_fila - 1))
    IN  formatear_porcentaje_columna(
            formatear_numero_columna(
                formatear_moneda_columna(t, "B", ultima_fila), "C", ultima_fila),
            "D", ultima_fila)

\* Lines 518-542
formatear_sucursales(ws) ==
    agregar_fila_total(
        formatear_porcentaje_columna(
            formatear_numero_columna(
                formatear_moneda_columna(aplicar_formato_profesional(ws), "B", 2),
                "C", 2),
            "D", 2))

\* wb[nombre]
PosHoja(libro, nombre) == CHOOSE k \in DOMAIN libro : libro[k].nombre = nombre

\* Lines 459-542 on the loaded workbook: the dashboard first, then the four
\* data sheets; an error raised by the dashboard leaves the rest undone.
formatear_libro(libro, s, existentes) ==
    LET d  == crear_hoja_dashboard(libro[PosHoja(libro, "Dashboard")], s, existentes)
        l1 == [libro EXCEPT ![PosHoja(libro, "Dashboard")] = d.hoja]
        l5 == [l1 EXCEPT ![PosHoja(libro, "Datos_Consolidados")]  = formatear_datos(@),
                         ![PosHoja(libro, "Top_Productos")]       = formatear_top(@),
                         ![PosHoja(libro, "Analisis_Vendedores")] = formatear_vendedores(@),
                         ![PosHoja(libro, "Resumen_Sucursales")]  = formatear_sucursales(@)]
    IN  IF d.error # "" THEN [libro |-> l1, error |-> d.error]
        ELSE [libro |-> l5, error |-> ""]

\* wb.save(output_file)
Guardado(libro) ==
    [k \in DOMAIN libro |-> Registrar([libro[k] EXCEPT !.estado = "guardada"], "guardada")]

-----------------------------------------------------------------------------
(* setup_logger (excel_helper.py lines 41-73)                              *)
-----------------------------------------------------------------------------

\* logging's numeric levels.
NOTSET == 0
INFO == 20

\* DEBUG, INFO, WARNING: values of the argument nivel, and of a message.
Niveles == {10, INFO, 30}

\* The names setup_logger is given: __name__ of consolidador.py run as a
\* script, and of excel_helper.py imported from sys.path or as a module of
\* the package shared_utils.  None is an ancestor of another, so the parent
\* of each is the root logger, which nothing configures.
Nombres == {"__main__", "excel_helper", "shared_utils.excel_helper"}

\* logging.getLogger(name) for a name never seen: level NOTSET, no handler.
LoggerNuevo == [level |-> NOTSET, handlers |-> <<>>]

\* logging.StreamHandler(sys.stdout) with handler.setLevel(nivel), lines 62-71.
StreamHandler(nivel) == [stream |-> "sys.stdout", level |-> nivel]

\* Variant: the handler is added on every call.
setup_logger_sin_guardia(registry, name, nivel) ==
    [registry EXCEPT ![name] =
        [level |-> nivel, handlers |-> Append(@.handlers, StreamHandler(nivel))]]

\* Lines 55-73: setLevel always; a handler only when the logger has none.
setup_logger(registry, name, nivel) ==
    [registry EXCEPT ![name] =
        [level |-> nivel,
         handlers |-> IF @.handlers = <<>>
                      THEN <<StreamHandler(nivel)>>
                      ELSE @.handlers]]

\* Logger.log(nivel, msg): dropped below the logger's level, else handed to
\* each handler of the logger, which writes it when at or above its own.
Emitidos(registry, name, nivel) ==
    IF nivel < registry[name].level
    THEN 0
    ELSE Cardinality({k \in DOMAIN registry[name].handlers :
                         nivel >= registry[name].handlers[k].level})

SinLlamada == [name |-> "", nivel |-> NOTSET]
SinMensaje == [name |-> "", nivel |-> NOTSET, lineas |-> 0]

\* Lines 546 and 62: both modules set their logger up when imported.
LoggersAlImportar ==
    /\ loggers = setup_logger(setup_logger([n \in Nombres |-> LoggerNuevo],
                                           "excel_helper", INFO),
                              "__main__", INFO)
    /\ llamada = [name |-> "__main__", nivel |-> INFO]
    /\ consola = SinMensaje

registro == <<loggers, llamada, consola>>

-----------------------------------------------------------------------------
(* State of a run *)

StatsVacio ==
    [total_ventas |-> 0, total_transacciones |-> 0,
     ticket_promedio |-> Fraccion(0, 0), fecha_inicio |-> NaT, fecha_fin |-> NaT,
     num_sucursales |-> 0, num_vendedores |-> 0, num_productos |-> 0]

TopVacio == [top_cantidad |-> <<>>, top_monto |-> <<>>]

\* Nothing written under OUTPUT_DIR yet by this run.
DiscoInicial ==
    [output_dir |-> FALSE, graficos_dir |-> FALSE, graficos |-> {},
     reporte |-> "ausente", guardados |-> 0, libro |-> <<>>]

GRAFICOS == <<"ventas_sucursal.png", "categorias.png", "tendencia.png">>

FallosEntorno == {"ninguno", "paso4", "paso5", "paso6", "guardar"}

InitComun ==
    /\ idx = 1
    /\ leidos = <<>>
    /\ dataframes = <<>>
    /\ error = SinError
    /\ stats = StatsVacio
    /\ ventas_sucursal = <<>>
    /\ top_productos = TopVacio
    /\ vendedores_stats = <<>>
    /\ categorias_stats = <<>>
    /\ tendencia = <<>>
    /\ disco = DiscoInicial
    /\ wb = <<>>
    /\ LoggersAlImportar

\* main() is entered with some input directory and some environment.
Init ==
    /\ carpeta_existe \in BOOLEAN
    /\ archivos \in IF carpeta_existe
                    THEN SecuenciasDistintas(ArchivoPool, MaxArchivos)
                    ELSE {<<>>}
    /\ fallo_entorno \in FallosEntorno
    /\ top_n = TOP_N
    /\ pc = "paso1"
    /\ df_consolidado = <<>>
    /\ df_columnas = <<>>
    /\ InitComun

\* Variant: the exception is recorded and the step is entered again.
Falla_y_reintenta(tipo, archivo, columnas) ==
    /\ pc' = pc
    /\ error' = Excepcion(tipo, archivo, columnas, pc)

\* The except clause of main (lines 570-574): log and re-raise.
Falla(tipo, archivo, columnas) ==
    /\ pc' = "error"
    /\ error' = Excepcion(tipo, archivo, columnas, pc)

resultados == <<stats, ventas_sucursal, top_productos, vendedores_stats,
                categorias_stats, tendencia>>

entrada == <<carpeta_existe, archivos, fallo_entorno, top_n>>

-----------------------------------------------------------------------------
(* Paso 1: leer_archivos_excel (excel_helper.py lines 104-148) *)

LeerInicio ==
    /\ pc = "paso1"
    /\ LET e == ErrorDeEntrada(carpeta_existe, archivos)
       IN  IF e = "ok"
           THEN pc' = "paso1_leer" /\ error' = error
           ELSE Falla(e, "", {})
    /\ idx' = 1
    /\ dataframes' = <<>>
    /\ UNCHANGED <<wb, df_columnas, registro, entrada, leidos, df_consolidado, resultados, disco>>

\* One iteration of the for-loop (lines 123-141).
LeerArchivo ==
    /\ pc = "paso1_leer"
    /\ idx <= Len(archivos)
    /\ LET archivo == archivos[idx]
           faltan  == columnas_faltantes(COLUMNAS_REQUERIDAS, archivo.columnas)
       IN  /\ leidos' = Append(leidos, archivo.name)
           /\ IF ~archivo.legible
              THEN /\ Falla("ErrorDeLectura", archivo.name, {})
                   /\ UNCHANGED <<idx, dataframes>>
              ELSE IF faltan # {}
              THEN /\ Falla("ValueError_columnas", archivo.name, faltan)
                   /\ UNCHANGED <<idx, dataframes>>
              ELSE /\ dataframes' = Append(dataframes, read_excel(archivo))
                   /\ idx' = idx + 1
                   /\ UNCHANGED <<pc, error>>
    /\ UNCHANGED <<wb, df_columnas, registro, entrada, df_consolidado, resultados, disco>>

\* Lines 144-148 and the return into main (line 331).
LeerConcat ==
    /\ pc = "paso1_leer"
    /\ idx > Len(archivos)
    /\ df_consolidado' = concat(dataframes)
    /\ df_columnas' = concat_columnas([k \in DOMAIN archivos |-> Encabezado(archivos[k])])
    /\ pc' = "paso2"
    /\ UNCHANGED <<wb, registro, entrada, idx, leidos, dataframes, error, resultados, disco>>

-----------------------------------------------------------------------------
(* Pasos 2 and 3 of main (lines 345-379) *)

lectura == <<idx, leidos, dataframes>>

Paso2 ==
    /\ pc = "paso2"
    /\ df_consolidado' = calcular_total_venta(df_consolidado)
    /\ df_columnas' = ConColumna(df_columnas, "Total_Venta")
    /\ pc' = "paso3_stats"
    /\ UNCHANGED <<wb, registro, entrada, lectura, error, resultados, disco>>

Paso3_stats ==
    /\ pc = "paso3_stats"
    /\ IF FechasMezcladas(df_consolidado)
       THEN Falla("TypeError", "", {}) /\ stats' = stats
       ELSE /\ stats' = calcular_estadisticas_generales(df_consolidado)
            /\ pc' = "paso3_sucursal"
            /\ error' = error
    /\ UNCHANGED <<wb, df_columnas, registro, entrada, lectura, df_consolidado, ventas_sucursal, top_productos,
                   vendedores_stats, categorias_stats, tendencia, disco>>

Paso3_sucursal ==
    /\ pc = "paso3_sucursal"
    /\ ventas_sucursal' \in analizar_ventas_por_sucursal(df_consolidado)
    /\ pc' = "paso3_top"
    /\ UNCHANGED <<wb, df_columnas, registro, entrada, lectura, df_consolidado, error, stats, top_productos,
                   vendedores_stats, categorias_stats, tendencia, disco>>

Paso3_top ==
    /\ pc = "paso3_top"
    /\ top_productos' = analizar_top_productos(df_consolidado, top_n)
    /\ pc' = "paso3_vendedores"
    /\ UNCHANGED <<wb, df_columnas, registro, entrada, lectura, df_consolidado, error, stats, ventas_sucursal,
                   vendedores_stats, categorias_stats, tendencia, disco>>

Paso3_vendedores ==
    /\ pc = "paso3_vendedores"
    /\ vendedores_stats' \in analizar_vendedores(df_consolidado)
    /\ pc' = "paso3_categorias"
    /\ UNCHANGED <<wb, df_columnas, registro, entrada, lectura, df_consolidado, error, stats, ventas_sucursal,
                   top_productos, categorias_stats, tendencia, disco>>

Paso3_categorias ==
    /\ pc = "paso3_categorias"
    /\ categorias_stats' \in analizar_categorias(df_consolidado)
    /\ pc' = "paso3_tendencia"
    /\ UNCHANGED <<wb, df_columnas, registro, entrada, lectura, df_consolidado, error, stats, ventas_sucursal,
                   top_productos, vendedores_stats, tendencia, disco>>

Paso3_tendencia ==
    /\ pc = "paso3_tendencia"
    /\ df_consolidado' = ConFechaConvertida(df_consolidado)
    /\ tendencia' = analizar_tendencia_temporal(df_consolidado')
    /\ pc' = "paso4"
    /\ UNCHANGED <<wb, df_columnas, registro, entrada, lectura, error, stats, ventas_sucursal, top_productos,
                   vendedores_stats, categorias_stats, disco>>

-----------------------------------------------------------------------------
(* Pasos 4 to 6 of main (lines 390-547) *)

datos == <<df_consolidado, resultados>>

\* Lines 390-414: both directories, then the three chart images in turn.
\* A chart that raises leaves the images written before it.  The bar chart
\* is drawn first, from ventas_sucursal['Total_Ventas']: Series.plot(kind=
\* 'bar') raises on a series without rows, so a table that names no branch
\* ends the run here.
Paso4 ==
    /\ pc = "paso4"
    /\ IF ventas_sucursal = <<>>
       THEN /\ disco' = [disco EXCEPT !.output_dir = TRUE, !.graficos_dir = TRUE]
            /\ Falla("ErrorDeGrafico", GRAFICOS[1], {})
       ELSE IF fallo_entorno = "paso4"
       THEN \E k \in DOMAIN GRAFICOS :
               /\ disco' = [disco EXCEPT !.output_dir = TRUE, !.graficos_dir = TRUE,
                                         !.graficos = {GRAFICOS[j] : j \in 1..(k - 1)}]
               /\ Falla("ErrorDeGrafico", GRAFICOS[k], {})
       ELSE /\ disco' = [disco EXCEPT !.output_dir = TRUE, !.graficos_dir = TRUE,
                                      !.graficos = Rango(GRAFICOS)]
            /\ pc' = "paso5"
            /\ error' = error
    /\ UNCHANGED <<wb, df_columnas, registro, entrada, lectura, datos>>

\* The sheets written by the to_excel calls of lines 429-449.
HojasDelRun ==
    escribir_hojas(df_consolidado, df_columnas, top_productos, vendedores_stats,
                   ventas_sucursal)

\* Lines 424-451: the ExcelWriter block.  Leaving the block saves the workbook
\* to output_file; it is left by an exception too, which saves the sheets
\* written so far, unless the file could not be opened at all.
Paso5 ==
    /\ pc = "paso5"
    /\ IF fallo_entorno = "paso5"
       THEN /\ \/ disco' = disco
               \/ \E k \in 1..4 :
                     disco' = [disco EXCEPT !.reporte = "parcial",
                                            !.guardados = @ + 1,
                                            !.libro = SubSeq(Guardado(HojasDelRun), 1, k)]
            /\ Falla("ErrorDeEscritura", "reporte_consolidado.xlsx", {})
       ELSE /\ disco' = [disco EXCEPT !.reporte = "sin_formato", !.guardados = @ + 1,
                                      !.libro = Guardado(HojasDelRun)]
            /\ pc' = "paso6"
            /\ error' = error
    /\ UNCHANGED <<wb, df_columnas, registro, entrada, lectura, datos>>

\* Lines 459-542: load_workbook and the formatting of the five sheets, all
\* on the workbook in memory.
Paso6_formato ==
    /\ pc = "paso6"
    /\ IF fallo_entorno = "paso6"
       THEN /\ wb' = wb
            /\ Falla("ErrorDeFormato", "reporte_consolidado.xlsx", {})
       ELSE LET r == formatear_libro(disco.libro, stats, disco.graficos)
            IN  /\ wb' = r.libro
                /\ IF r.error # ""
                   THEN Falla(r.error, "graficos_temp", {})
                   ELSE pc' = "guardar" /\ error' = error
    /\ UNCHANGED <<df_columnas, registro, entrada, lectura, datos, disco>>

\* Line 547: wb.save(output_file) overwrites the file of Paso 5.
Paso6_guardar ==
    /\ pc = "guardar"
    /\ IF fallo_entorno = "guardar"
       THEN /\ \/ disco' = disco
               \/ disco' = [disco EXCEPT !.reporte = "parcial", !.libro = <<>>]
            /\ Falla("ErrorDeEscritura", "reporte_consolidado.xlsx", {})
       ELSE /\ disco' = [disco EXCEPT !.reporte = "completo", !.guardados = @ + 1,
                                      !.libro = Guardado(wb)]
            /\ pc' = "fin"
            /\ error' = error
    /\ UNCHANGED <<wb, df_columnas, registro, entrada, lectura, datos>>

-----------------------------------------------------------------------------
(* Specifications *)

Next ==
    \/ LeerInicio
    \/ LeerArchivo
    \/ LeerConcat
    \/ Paso2
    \/ Paso3_stats
    \/ Paso3_sucursal
    \/ Paso3_top
    \/ Paso3_vendedores
    \/ Paso3_categorias
    \/ Paso3_tendencia
    \/ Paso4
    \/ Paso5
    \/ Paso6_formato
    \/ Paso6_guardar

Spec == Init /\ [][Next]_vars

\* The analysis functions on any consolidated table, as returned by concat:
\* rows in any order, with repetitions, indexed 0..n-1.
TablasConsolidadas ==
    {[k \in DOMAIN s |-> ConIndice(FilaPool[s[k]], k - 1)] :
        s \in UNION {[1..n -> DOMAIN FilaPool] : n \in 0..MaxRegistros}}

\* Values of top_n: rankings cut to one or two products, and main's 10.
TopNs == {1, 2, TOP_N}

InitAnalisis ==
    /\ carpeta_existe = TRUE
    /\ archivos = <<>>
    /\ fallo_entorno = "ninguno"
    /\ top_n \in TopNs
    /\ pc = "paso2"
    /\ df_consolidado \in TablasConsolidadas
    /\ df_columnas = COLUMNAS_REQUERIDAS
    /\ InitComun

NextAnalisis ==
    \/ Paso2
    \/ Paso3_stats
    \/ Paso3_sucursal
    \/ Paso3_top
    \/ Paso3_vendedores
    \/ Paso3_categorias
    \/ Paso3_tendencia

SpecAnalisis == InitAnalisis /\ [][NextAnalisis]_vars

\* crear_hoja_dashboard and the save that follows it, entered from the state
\* paso 5 leaves but with any of the chart files gone from graficos_temp.
TablasDashboard ==
    {[k \in DOMAIN s |-> ConIndice(FilaPool[s[k]], k - 1)] :
        s \in UNION {[1..n -> DOMAIN FilaPool] : n \in 1..MaxFilasDashboard}}

InitDashboard ==
    /\ carpeta_existe = TRUE
    /\ archivos = <<>>
    /\ fallo_entorno = "ninguno"
    /\ top_n = TOP_N
    /\ pc = "paso6"
    /\ idx = 1
    /\ leidos = <<>>
    /\ dataframes = <<>>
    /\ error = SinError
    /\ \E t \in TablasDashboard :
          LET d == calcular_total_venta(t)
          IN  /\ ~FechasMezcladas(d)
              /\ stats = calcular_estadisticas_generales(d)
              /\ ventas_sucursal \in analizar_ventas_por_sucursal(d)
              /\ ventas_sucursal # <<>>
              /\ top_productos = analizar_top_productos(d, top_n)
              /\ vendedores_stats \in analizar_vendedores(d)
              /\ categorias_stats \in analizar_categorias(d)
              /\ df_consolidado = ConFechaConvertida(d)
              /\ df_columnas = ConColumna(COLUMNAS_REQUERIDAS, "Total_Venta")
              /\ tendencia = analizar_tendencia_temporal(df_consolidado)
    /\ \E presentes \in SUBSET Rango(GRAFICOS) :
          disco = [output_dir |-> TRUE, graficos_dir |-> TRUE, graficos |-> presentes,
                   reporte |-> "sin_formato", guardados |-> 1,
                   libro |-> Guardado(HojasDelRun)]
    /\ wb = <<>>
    /\ LoggersAlImportar

NextDashboard ==
    \/ Paso6_formato
    \/ Paso6_guardar

SpecDashboard == InitDashboard /\ [][NextDashboard]_vars

\* setup_logger and the loggers it returns, from an interpreter in which no
\* logger exists yet: any names, any levels, any number of calls.
principal == <<carpeta_existe, archivos, fallo_entorno, top_n, pc, idx, leidos,
               dataframes, df_consolidado, df_columnas, error, stats,
               ventas_sucursal, top_productos, vendedores_stats, categorias_stats,
               tendencia, disco, wb>>

InitLogger ==
    /\ carpeta_existe = FALSE
    /\ archivos = <<>>
    /\ fallo_entorno = "ninguno"
    /\ top_n = TOP_N
    /\ pc = "paso1"
    /\ df_consolidado = <<>>
    /\ df_columnas = <<>>
    /\ idx = 1
    /\ leidos = <<>>
    /\ dataframes = <<>>
    /\ error = SinError
    /\ stats = StatsVacio
    /\ ventas_sucursal = <<>>
    /\ top_productos = TopVacio
    /\ vendedores_stats = <<>>
    /\ categorias_stats = <<>>
    /\ tendencia = <<>>
    /\ disco = DiscoInicial
    /\ wb = <<>>
    /\ loggers = [n \in Nombres |-> LoggerNuevo]
    /\ llamada = SinLlamada
    /\ consola = SinMensaje

\* A call setup_logger(name, nivel) runs to its return.
LlamarSetupLogger ==
    \E name \in Nombres, nivel \in Niveles :
        /\ loggers' = setup_logger(loggers, name, nivel)
        /\ llamada' = [name |-> name, nivel |-> nivel]
        /\ UNCHANGED <<consola, principal>>

\* A message is logged through a logger setup_logger has returned.
Registrar_mensaje ==
    \E name \in Nombres, nivel \in Niveles :
        /\ loggers[name] # LoggerNuevo
        /\ consola' = [name |-> name, nivel |-> nivel,
                       lineas |-> Emitidos(loggers, name, nivel)]
        /\ UNCHANGED <<loggers, llamada, principal>>

NextLogger ==
    \/ LlamarSetupLogger
    \/ Registrar_mensaje

SpecLogger == InitLogger /\ [][NextLogger]_vars


-----------------------------------------------------------------------------
(* Properties *)

PasosDeLectura == {"paso1", "paso1_leer"}

\* leer_archivos_excel has returned its table to main.
Ingerido ==
    /\ pc \notin PasosDeLectura
    /\ ~(pc = "error" /\ error.paso \in PasosDeLectura)

AnalisisCompleto == pc \in {"paso4", "paso5", "paso6", "guardar", "fin"}

Abs(x) == IF x < 0 THEN 0 - x ELSE x

\* C1: when main() re-raises an error, no report file written by this run
\* exists at the output path.
C1_SinReporteTrasError ==
    pc = "error" => disco.reporte = "ausente"

\* C2: the report file is written by exactly one save, after all formatting;
\* before that point of the run no report file of this run exists.
C2_UnSoloGuardadoAlFinal ==
    /\ disco.guardados <= 1
    /\ disco.reporte # "ausente" => pc = "fin"

\* C3: with no matching file, or a matched file lacking a required column,
\* main() never leaves ingestion: it fails there, and neither the output
\* directory nor a chart image nor the report file has been created.
C3_FallaAntesDeEscribir ==
    (/\ carpeta_existe
     /\ \/ archivos = <<>>
        \/ \E k \in DOMAIN archivos :
              archivos[k].legible /\ ~(Todas \subseteq archivos[k].columnas))
    => /\ pc \in PasosDeLectura \cup {"error"}
       /\ disco = DiscoInicial
       /\ pc = "error" =>
            /\ error.paso \in PasosDeLectura
            /\ error.tipo \in {"ValueError_sin_archivos", "ValueError_columnas",
                                "ErrorDeLectura"}

C3_Testigo ==
    /\ pc = "error"
    /\ error.tipo = "ValueError_columnas"
    /\ Len(leidos) = 2
    /\ disco = DiscoInicial

\* C4: a loaded file lacking a required column ends the loop at that file
\* with an error naming the file and exactly the required columns it lacks;
\* no later file is loaded and no table is returned, whatever was loaded
\* before it.
C4_ErrorDeColumnas ==
    /\ \A k \in 1..Len(leidos) :
          (archivos[k].legible /\ ~(Todas \subseteq archivos[k].columnas))
          => /\ k = Len(leidos)
             /\ pc = "error"
             /\ error.tipo = "ValueError_columnas"
             /\ error.archivo = archivos[k].name
             /\ error.columnas = Todas \ archivos[k].columnas
             /\ df_consolidado = <<>>
    /\ (pc = "error" /\ error.tipo = "ValueError_columnas")
       => /\ leidos # <<>>
          /\ error.archivo = leidos[Len(leidos)]
          /\ error.columnas # {}
          /\ error.columnas = Todas \ archivos[Len(leidos)].columnas
          /\ \A j \in 1..(Len(leidos) - 1) : Todas \subseteq archivos[j].columnas

C4_Testigo ==
    /\ pc = "error"
    /\ error.tipo = "ValueError_columnas"
    /\ Cardinality(error.columnas) = 2
    /\ Len(dataframes) = 1
    /\ Len(dataframes[1]) > 0

\* C5: an absent directory gives the directory-not-found error, an existing
\* directory without matching files the no-matching-files error; the
\* directory is tested first and in neither case is a file loaded.
C5_ErroresDeEntrada ==
    /\ (~carpeta_existe /\ pc # "paso1")
       => pc = "error" /\ error.tipo = "FileNotFoundError" /\ leidos = <<>>
    /\ (carpeta_existe /\ archivos = <<>> /\ pc # "paso1")
       => pc = "error" /\ error.tipo = "ValueError_sin_archivos" /\ leidos = <<>>
    /\ error.tipo = "FileNotFoundError" => ~carpeta_existe
    /\ error.tipo = "ValueError_sin_archivos" => carpeta_existe /\ archivos = <<>>

C5_Testigo ==
    /\ pc = "error"
    /\ error.tipo = "FileNotFoundError"
    /\ archivos = <<>>
    /\ leidos = <<>>

RECURSIVE FilasHasta(_, _)
\* Rows of the first j input files.
FilasHasta(archs, j) ==
    IF j = 0 THEN 0 ELSE FilasHasta(archs, j - 1) + Len(archs[j].filas)

\* C6: the consolidated table has as many rows as the input files together.
C6_FilasConsolidadas ==
    Ingerido => Len(df_consolidado) = FilasHasta(archivos, Len(archivos))

C6_Testigo ==
    /\ pc = "paso2"
    /\ Len(archivos) = 2
    /\ \E j, k \in DOMAIN df_consolidado :
          j # k /\ ConIndice(df_consolidado[j], 0) = ConIndice(df_consolidado[k], 0)

SinIndice(r) == [c \in DOMAIN r \ {"indice"} |-> r[c]]

\* C7: the returned table holds the rows of the files in processing order,
\* each file's rows in their own order, under the index 0..n-1.
C7_OrdenEIndice ==
    pc = "paso2" =>
        /\ Len(df_consolidado) = FilasHasta(archivos, Len(archivos))
        /\ \A k \in DOMAIN df_consolidado : df_consolidado[k].indice = k - 1
        /\ \A j \in DOMAIN archivos : \A r \in DOMAIN archivos[j].filas :
              SinIndice(df_consolidado[FilasHasta(archivos, j - 1) + r])
                  = archivos[j].filas[r]

C7_Testigo ==
    /\ pc = "paso2"
    /\ Len(archivos) = 2
    /\ Len(archivos[1].filas) = 2
    /\ Len(archivos[2].filas) = 3
    /\ df_consolidado[3].indice = 2

\* Each stored value of an aggregate is within half a hundredth of the sum
\* it rounds.
Tolerancia(agg) == 5 * Len(agg)

SumaCercana(agg, campo) ==
    Abs(Suma(agg, campo) - stats.total_ventas) <= Tolerancia(agg)

\* C8: the revenue of each of the per-branch, per-salesperson, per-category
\* and per-date aggregates, summed over its rows, equals the grand-total
\* revenue of the general statistics within the rounding tolerance.
C8_SumasIgualTotal ==
    AnalisisCompleto =>
        /\ SumaCercana(ventas_sucursal, "Total_Ventas")
        /\ SumaCercana(vendedores_stats, "Total_Ventas")
        /\ SumaCercana(categorias_stats, "Total_Ventas")
        /\ SumaCercana(tendencia, "Total_Venta")

\* Series.sum() of the Participacion column: NaN cells are skipped.
SumaParticipacion(agg) ==
    LET validas == SelectSeq(agg, LAMBDA r : r.Participacion.den # 0)
    IN  IF validas = <<>> THEN Fraccion(0, 1)
        ELSE Fraccion(Suma([k \in DOMAIN validas |-> validas[k].Participacion], "num"),
                      validas[1].Participacion.den)

SumaUno(agg) == SumaParticipacion(agg).num = SumaParticipacion(agg).den

\* C9: the Participacion column of the per-branch and of the per-category
\* aggregate sums to 1.
C9_ParticipacionSumaUno ==
    AnalisisCompleto => SumaUno(ventas_sucursal) /\ SumaUno(categorias_stats)

Descendente(agg) ==
    \A k \in 1..(Len(agg) - 1) : agg[k].Total_Ventas >= agg[k + 1].Total_Ventas

\* C10: in the per-branch, per-salesperson and per-category aggregates the
\* revenue of a row is greater than or equal to the revenue of the next row.
C10_OrdenDescendente ==
    /\ Descendente(ventas_sucursal)
    /\ Descendente(vendedores_stats)
    /\ Descendente(categorias_stats)

C10_Testigo ==
    /\ AnalisisCompleto
    /\ Len(ventas_sucursal) = 3
    /\ ventas_sucursal[1].Total_Ventas > ventas_sucursal[2].Total_Ventas
    /\ PosClave(ventas_sucursal[1].Sucursal) > PosClave(ventas_sucursal[2].Sucursal)
    /\ Len(vendedores_stats) = 2
    /\ vendedores_stats[1].Total_Ventas > vendedores_stats[2].Total_Ventas
    /\ Len(categorias_stats) = 2
    /\ categorias_stats[1].Total_Ventas > categorias_stats[2].Total_Ventas

\* The products of the consolidated table and their summed metric, taken
\* from the rows themselves.
Productos == {df_consolidado[k].Producto : k \in DOMAIN df_consolidado} \ {NaN}

MetricaProducto(p, campo) ==
    Suma(SelectSeq(df_consolidado, LAMBDA r : r.Producto = p), campo)

TopCalculado ==
    pc \in {"paso3_vendedores", "paso3_categorias", "paso3_tendencia"} \/ AnalisisCompleto

RankingCorrecto(ranking, columna) ==
    /\ Len(ranking) = Min(top_n, Cardinality(Productos))
    /\ \A k \in DOMAIN ranking :
          /\ ranking[k].Producto \in Productos
          /\ ranking[k][columna] = MetricaProducto(ranking[k].Producto, columna)
    /\ \A a, b \in DOMAIN ranking :
          /\ a # b => ranking[a].Producto # ranking[b].Producto
          /\ a < b => ranking[a][columna] >= ranking[b][columna]
          /\ ranking[a][columna] > ranking[b][columna] => a < b
    /\ \A p \in Productos \ {ranking[k].Producto : k \in DOMAIN ranking} :
          \A k \in DOMAIN ranking : MetricaProducto(p, columna) <= ranking[k][columna]

\* C11: analizar_top_productos returns two rankings, one by summed quantity
\* and one by summed revenue per product, each computed from the table alone;
\* each is sorted descending by its own metric, holds min(N, distinct
\* products) products, leaves out no product with a strictly greater metric
\* than one it holds, and places a product with a strictly greater metric
\* before one with a smaller metric.
C11_RankingsTopN ==
    TopCalculado =>
        /\ RankingCorrecto(top_productos.top_cantidad, "Cantidad")
        /\ RankingCorrecto(top_productos.top_monto, "Total_Venta")

\* A ranking cut to one product out of several, where the product sold most
\* by quantity is not the one with most revenue.
C11_Testigo ==
    /\ TopCalculado
    /\ top_n = 1
    /\ Cardinality(Productos) >= 2
    /\ top_productos.top_cantidad[1].Producto # top_productos.top_monto[1].Producto
    /\ \E p \in Productos :
          MetricaProducto(p, "Cantidad") < top_productos.top_cantidad[1].Cantidad

PasosDeAgregacion ==
    {"paso3_stats", "paso3_sucursal", "paso3_top", "paso3_vendedores",
     "paso3_categorias", "paso3_tendencia"}

\* C12: each aggregation operation (general statistics, per-branch, top
\* products, per-salesperson, per-category, daily series) leaves the
\* consolidated table passed to it unchanged: same rows, same values and
\* value types.
C12_AgregacionesSinEfecto ==
    [][(pc \in PasosDeAgregacion) => (df_consolidado' = df_consolidado)]_vars

NombresDe(libro) == [k \in DOMAIN libro |-> libro[k].nombre]

HOJAS ==
    <<"Dashboard", "Datos_Consolidados", "Top_Productos", "Analisis_Vendedores",
      "Resumen_Sucursales">>

\* C13: after every successful run the saved workbook holds exactly the five
\* sheets Dashboard, Datos_Consolidados, Top_Productos, Analisis_Vendedores,
\* Resumen_Sucursales, in this order; the formatting pass neither adds,
\* removes nor reorders sheets (the workbook it leaves in memory has the
\* sheets of the file it loaded, in the same order).
C13_CincoHojasEnOrden ==
    /\ pc = "guardar" => NombresDe(wb) = NombresDe(disco.libro)
    /\ pc = "fin" => NombresDe(disco.libro) = HOJAS /\ NombresDe(wb) = HOJAS

\* A run that ended well, all five sheets formatted and saved.
C13_Testigo ==
    /\ pc = "fin"
    /\ disco.reporte = "completo"
    /\ Len(disco.libro) = 5
    /\ \A k \in DOMAIN disco.libro : disco.libro[k].estado = "guardada"
    /\ Len(df_consolidado) >= 3

HojaGuardada(nombre) == disco.libro[PosHoja(disco.libro, nombre)]

\* The distinct branches of the consolidated table (blank cells name none).
Sucursales == {df_consolidado[k].Sucursal : k \in DOMAIN df_consolidado} \ {NaN}

\* C14: after a successful run the Resumen_Sucursales sheet has its header
\* row, exactly one data row per distinct branch of the consolidated table
\* (rows 2..k) and, directly below, in row k+1, one row whose cells are TOTAL,
\* =SUM(B2:Bk), =SUM(C2:Ck), =SUM(D2:Dk); the ranges cover every data row and
\* neither the header row nor the TOTAL row.
C14_FilaTotal ==
    pc = "fin" =>
        LET h == HojaGuardada("Resumen_Sucursales")
            k == Len(h.filas) + 1
        IN  /\ Len(h.filas) = Cardinality(Sucursales)
            /\ \A s \in Sucursales :
                  Cardinality({i \in DOMAIN h.filas : h.filas[i].Sucursal = s}) = 1
            /\ k >= 2
            /\ h.max_row = k + 1
            /\ h.celdas =
                  {[celda |-> "A" \o ToString(k + 1), valor |-> "TOTAL"],
                   [celda |-> "B" \o ToString(k + 1),
                    valor |-> "=SUM(B2:B" \o ToString(k) \o ")"],
                   [celda |-> "C" \o ToString(k + 1),
                    valor |-> "=SUM(C2:C" \o ToString(k) \o ")"],
                   [celda |-> "D" \o ToString(k + 1),
                    valor |-> "=SUM(D2:D" \o ToString(k) \o ")"]}

\* A saved summary of three branches: data rows 2..4, TOTAL in row 5.
C14_Testigo ==
    /\ pc = "fin"
    /\ Cardinality(Sucursales) = 3
    /\ [celda |-> "A5", valor |-> "TOTAL"] \in HojaGuardada("Resumen_Sucursales").celdas
    /\ [celda |-> "B5", valor |-> "=SUM(B2:B4)"]
          \in HojaGuardada("Resumen_Sucursales").celdas

\* The value a =SUM formula of the TOTAL row shows: the sum of the cells of
\* the data rows above it.
EvaluarTotal(hoja, campo) == Suma(hoja.filas, campo)

\* C15: for every valid input set, the TOTAL row's revenue cell of the saved
\* Resumen_Sucursales sheet, evaluated as the sum of the revenue cells of the
\* data rows above it, equals total_ventas of the general statistics (up to
\* the rounding of the stored cells).
C15_TotalIgualGranTotal ==
    pc = "fin" =>
        Abs(EvaluarTotal(HojaGuardada("Resumen_Sucursales"), "Total_Ventas")
            - stats.total_ventas)
          <= Tolerancia(HojaGuardada("Resumen_Sucursales").filas)

\* The three images crear_hoja_dashboard can place: anchor, file, scale.
ImagenesDashboard ==
    {[ancla |-> "B14", archivo |-> "ventas_sucursal.png", escala |-> 55],
     [ancla |-> "I14", archivo |-> "categorias.png",      escala |-> 55],
     [ancla |-> "B39", archivo |-> "tendencia.png",       escala |-> 60]}

CeldasDashboard ==
    {"B2", "B3", "B5", "C5", "B6", "C6", "B7", "C7", "B8", "C8", "B9", "C9",
     "B10", "C10", "B13", "I13", "B38"}

\* C16: whichever of the three chart files are absent, crear_hoja_dashboard
\* raises no error; the title, period, KPI and chart-title cells are written,
\* each present image is embedded at its anchor cell, no absent image is
\* placed, and the run goes on to save the report.
C16_ImagenesAusentes ==
    /\ pc # "error"
    /\ error = SinError
    /\ pc \in {"guardar", "fin"} =>
          LET h == wb[PosHoja(wb, "Dashboard")]
          IN  /\ {c.celda : c \in h.celdas} = CeldasDashboard
              /\ [celda |-> "B2", valor |-> "REPORTE CONSOLIDADO DE VENTAS"] \in h.celdas
              /\ h.imagenes = {i \in ImagenesDashboard : i.archivo \in disco.graficos}
    /\ pc = "fin" =>
          /\ disco.reporte = "completo"
          /\ HojaGuardada("Dashboard").imagenes
                = {i \in ImagenesDashboard : i.archivo \in disco.graficos}

\* A report saved with only the pie chart on its dashboard.
C16_Testigo ==
    /\ pc = "fin"
    /\ disco.graficos = {"categorias.png"}
    /\ HojaGuardada("Dashboard").imagenes
          = {[ancla |-> "I14", archivo |-> "categorias.png", escala |-> 55]}
    /\ Cardinality(HojaGuardada("Dashboard").celdas) = 17

\* Position of the first row of the consolidated table carrying value v.
PrimeraAparicion(col, v) ==
    CHOOSE k \in DOMAIN df_consolidado :
        /\ df_consolidado[k][col] = v
        /\ \A j \in 1..(k - 1) : df_consolidado[j][col] # v

EmpatesEnOrdenDeAparicion(agg, col) ==
    \A a, b \in DOMAIN agg :
        (a < b /\ agg[a].Total_Ventas = agg[b].Total_Ventas)
            => PrimeraAparicion(col, agg[a][col]) < PrimeraAparicion(col, agg[b][col])

\* C17: in the per-branch, per-salesperson and per-category aggregates,
\* dimension values of equal summed revenue appear in the order in which
\* they first occur in the consolidated table.
C17_EmpatesPrimeroEncontrado ==
    AnalisisCompleto =>
        /\ EmpatesEnOrdenDeAparicion(ventas_sucursal, "Sucursal")
        /\ EmpatesEnOrdenDeAparicion(vendedores_stats, "Vendedor")
        /\ EmpatesEnOrdenDeAparicion(categorias_stats, "Categoria")

\* C18: every row of the per-branch aggregate has a share that is a number
\* in [0,1] equal to the branch's summed revenue divided by the grand-total
\* revenue of the general statistics, also when that total is zero.
C18_ParticipacionEnRango ==
    AnalisisCompleto =>
        \A k \in DOMAIN ventas_sucursal :
            LET p == ventas_sucursal[k].Participacion
            IN  /\ p.den # 0
                /\ 0 <= p.num /\ p.num <= p.den
                /\ p.num * stats.total_ventas = ventas_sucursal[k].Total_Ventas * p.den

FilasCon(col, v) == Len(SelectSeq(df_consolidado, LAMBDA r : r[col] = v))

ConteosPorFila(agg, col) ==
    /\ \A k \in DOMAIN agg : agg[k].Transacciones = FilasCon(col, agg[k][col])
    /\ Suma(agg, "Transacciones") = stats.total_transacciones

\* C19: in the per-branch and per-salesperson aggregates the transaction
\* count of a value equals the number of rows of the consolidated table
\* carrying that value, and the counts of an aggregate add up to the
\* transaction count of the general statistics.
C19_ConteoDeFilas ==
    AnalisisCompleto =>
        /\ ConteosPorFila(ventas_sucursal, "Sucursal")
        /\ ConteosPorFila(vendedores_stats, "Vendedor")

\* C20: each row's Ticket_Promedio is the row's own stored Total_Ventas
\* divided by its own Transacciones, rounded to 2 decimals: a multiple of
\* 0.01 at most half a cent away from the quotient (not a number when the
\* count is zero).
C20_TicketPromedio ==
    AnalisisCompleto =>
        \A k \in DOMAIN vendedores_stats :
            LET r == vendedores_stats[k]
            IN  IF r.Transacciones = 0
                THEN r.Ticket_Promedio = Indefinido
                ELSE /\ r.Ticket_Promedio % 10 = 0
                     /\ 2 * Abs(r.Ticket_Promedio * r.Transacciones - r.Total_Ventas)
                           <= 10 * r.Transacciones

\* A salesperson whose mean ticket is rounded up: 8.03 / 3 stored as 2.68.
C20_Testigo ==
    /\ AnalisisCompleto
    /\ \E k \in DOMAIN vendedores_stats :
          /\ vendedores_stats[k].Transacciones = 3
          /\ vendedores_stats[k].Total_Ventas = 8030
          /\ vendedores_stats[k].Ticket_Promedio = 2680

\* The positions of main() in program order: ingest (paso1, paso1_leer), the
\* line-total column (paso2), the aggregations (paso3_*), the charts (paso4),
\* the sheets (paso5), the formatting (paso6), the save (guardar).
OrdenDePasos ==
    <<"paso1", "paso1_leer", "paso2", "paso3_stats", "paso3_sucursal", "paso3_top",
      "paso3_vendedores", "paso3_categorias", "paso3_tendencia", "paso4", "paso5",
      "paso6", "guardar", "fin">>

PosPaso(p) == CHOOSE k \in DOMAIN OrdenDePasos : OrdenDePasos[k] = p

\* C21: every step of main() either moves to the position that follows
\* directly in the order ingest, line total, aggregations, charts, sheets,
\* formatting, save (or reads the next file of the ingest loop), or ends the
\* run with an error; no position is entered twice, none is skipped, and
\* after an error or the end nothing more is executed.
C21_EtapasEnOrden ==
    [][/\ pc \notin {"error", "fin"}
       /\ \/ pc' = "error"
          \/ pc' # "error" /\ PosPaso(pc') = PosPaso(pc) + 1
          \/ pc = "paso1_leer" /\ pc' = pc /\ idx' = idx + 1 /\ idx <= Len(archivos)]_vars

\* A run of three files that went through every stage and saved the report.
C21_Testigo ==
    /\ pc = "fin"
    /\ Len(leidos) = 3
    /\ disco.graficos = Rango(GRAFICOS)
    /\ disco.reporte = "completo"
    /\ error = SinError

UnaVezEnOrden(historia) ==
    /\ historia[1] = "datos"
    /\ historia[Len(historia)] = "guardada"
    /\ Cardinality({i \in DOMAIN historia : historia[i] = "guardada"}) = 1
    /\ \A i, j \in DOMAIN historia :
          (i < j /\ historia[i] = "formato") => historia[j] \notin {"valor", "datos"}

\* C22: in every successful run each of the five sheets has its data
\* written, is then formatted and is then saved, each once and in that
\* order: no cell value is written to a sheet after formatting was applied
\* to it, and no sheet is saved more than once.
C22_HojasUnaVezEnOrden ==
    pc = "fin" =>
        \A k \in DOMAIN disco.libro : UnaVezEnOrden(disco.libro[k].historia)

\* A line total in thousandths is quantity x unit price rounded to 2
\* decimals: a multiple of 0.01 at most half a cent away from the product.
TotalRedondeado(r) ==
    /\ r.Total_Venta % 10 = 0
    /\ 2 * Abs(r.Total_Venta - r.Cantidad * r.Precio_Unitario) <= 10

ColumnasBase == Rango(COLUMNAS_REQUERIDAS) \cup {"indice"}

\* C23: while the aggregations run, every row of the consolidated table has
\* a Total_Venta equal to its Cantidad times its Precio_Unitario rounded to
\* 2 decimals; the step that adds the column keeps the number of rows and
\* the cells of the seven base columns of every row.
C23_TotalVentaPorFila ==
    /\ [](pc \in PasosDeAgregacion =>
             \A k \in DOMAIN df_consolidado : TotalRedondeado(df_consolidado[k]))
    /\ [][pc = "paso2" =>
             /\ Len(df_consolidado') = Len(df_consolidado)
             /\ \A k \in DOMAIN df_consolidado :
                   /\ DOMAIN df_consolidado'[k] = ColumnasBase \cup {"Total_Venta"}
                   /\ \A c \in ColumnasBase :
                         df_consolidado'[k][c] = df_consolidado[k][c]]_vars

\* The column just added to a table of three rows, one of whose products
\* (2 x 1.503 = 3.006) was rounded up to 3.01.
C23_Testigo ==
    /\ pc = "paso3_stats"
    /\ Len(df_consolidado) = 3
    /\ \E k \in DOMAIN df_consolidado :
          /\ df_consolidado[k].Cantidad * df_consolidado[k].Precio_Unitario = 3006
          /\ df_consolidado[k].Total_Venta = 3010

\* get_column_letter for the first columns of a sheet.
Letras == <<"A", "B", "C", "D", "E", "F", "G", "H", "I", "J">>

LetraDe(hoja, col) ==
    Letras[CHOOSE k \in DOMAIN hoja.encabezado : hoja.encabezado[k] = col]

ColumnaConFormato(hoja, col, formato) ==
    \A r \in 2..(Len(hoja.filas) + 1) :
        [celda |-> LetraDe(hoja, col) \o ToString(r), formato |-> formato]
            \in hoja.formatos

\* C24: for every input set that passes validation, whatever the position
\* of the required columns and whatever extra columns the files have, the
\* saved Datos_Consolidados sheet has the currency format on the data cells
\* of its Precio_Unitario and Total_Venta columns, the integer format on
\* those of its Cantidad column, and its table range A1:H<last row> spans
\* all columns of the sheet.
C24_FormatosDeDatos ==
    pc = "fin" =>
        LET h == HojaGuardada("Datos_Consolidados")
        IN  /\ ColumnaConFormato(h, "Precio_Unitario", "$#,##0.00")
            /\ ColumnaConFormato(h, "Total_Venta", "$#,##0.00")
            /\ ColumnaConFormato(h, "Cantidad", "#,##0")
            /\ Len(h.encabezado) = 8
            /\ h.tablas = {[nombre |-> "TablaDatosConsolidados",
                            ref    |-> "A1:H" \o ToString(Len(h.filas) + 1)]}

-----------------------------------------------------------------------------
\* C25: after any sequence of setup_logger calls, every logger name that has
\* been set up carries exactly one handler, a console (sys.stdout) handler,
\* so a message logged through it is written at most once; and the level of
\* the logger named in the call that returned last is the level passed in.
Configurados == {n \in Nombres : loggers[n] # LoggerNuevo}

C25_UnSoloHandler ==
    /\ \A n \in Configurados :
          /\ Len(loggers[n].handlers) = 1
          /\ loggers[n].handlers[1].stream = "sys.stdout"
    /\ llamada # SinLlamada =>
          /\ llamada.name \in Configurados
          /\ loggers[llamada.name].level = llamada.nivel
    /\ consola.lineas <= 1

\* A name set up more than once, with a different level the second time, and
\* a message written through it.
C25_Testigo ==
    /\ llamada # SinLlamada
    /\ loggers[llamada.name].level # loggers[llamada.name].handlers[1].level
    /\ Cardinality(Configurados) >= 2
    /\ consola.name = llamada.name
    /\ consola.lineas = 1

====
